---- MODULE Spec2Model ----
(***************************************************************************)
(* Model of the LLM invocation layer of autonomous-langchain:              *)
(* AutonomousLLMManager (provider selection, invoke with fallback),        *)
(* GeminiLLMWrapper (the single-prompt adapter) and _clean_llm_response    *)
(* (the response normalizer).                                              *)
(*                                                                         *)
(* A text is a sequence of one-character strings; offsets are 0-based as   *)
(* in the Python source, and -1 means "not found".                         *)
(***************************************************************************)
EXTENDS Integers, Sequences, FiniteSets, TLC

\* ------------------------------------------------------------------------
\* Bounds
\* ------------------------------------------------------------------------

\* Number of chunks a backend reply is assembled from.
MaxRawChunks == 3

\* Number of invoke calls made on one manager instance.
MaxInvokes == 3

\* Number of chunks a text handed to the normalizer on its own is assembled
\* from.
MaxNormChunks == 3

\* Number of times the normalizer is applied in a row.
MaxApplications == 2

\* Number of messages in a list handed to the prompt conversion on its own.
MaxMessages == 2

\* Number of threads calling invoke on one manager at the same time.
NumThreads == 2

\* ------------------------------------------------------------------------
\* Python str primitives
\* ------------------------------------------------------------------------

\* Characters str.strip() and the regex class \s treat as whitespace.
Whitespace == {" ", "\n", "\t"}

\* s[a:b] for 0 <= a, b (b is clamped to len(s) as Python does).
Slice(s, a, b) == SubSeq(s, a + 1, IF b > Len(s) THEN Len(s) ELSE b)

\* s[a:]
SliceFrom(s, a) == SubSeq(s, a + 1, Len(s))

\* The offsets at which pat occurs in s.
Occurrences(s, pat) ==
    {i \in 0..(Len(s) - Len(pat)) : SubSeq(s, i + 1, i + Len(pat)) = pat}

\* pat in s
Contains(s, pat) == Occurrences(s, pat) # {}

\* s.find(pat)
Find(s, pat) ==
    IF Occurrences(s, pat) = {} THEN -1
    ELSE CHOOSE i \in Occurrences(s, pat) : \A j \in Occurrences(s, pat) : i <= j

\* s.rfind(pat)
RFind(s, pat) ==
    IF Occurrences(s, pat) = {} THEN -1
    ELSE CHOOSE i \in Occurrences(s, pat) : \A j \in Occurrences(s, pat) : i >= j

\* s.startswith(pat)
StartsWith(s, pat) == Len(pat) <= Len(s) /\ SubSeq(s, 1, Len(pat)) = pat

\* s.endswith(pat)
EndsWith(s, pat) ==
    Len(pat) <= Len(s) /\ SubSeq(s, Len(s) - Len(pat) + 1, Len(s)) = pat

RECURSIVE LStrip(_)
\* s.lstrip()
LStrip(s) ==
    IF s # <<>> /\ Head(s) \in Whitespace THEN LStrip(Tail(s)) ELSE s

RECURSIVE RStrip(_)
\* s.rstrip()
RStrip(s) ==
    IF s # <<>> /\ s[Len(s)] \in Whitespace
    THEN RStrip(SubSeq(s, 1, Len(s) - 1))
    ELSE s

\* Mutant of Strip: lstrip() where strip() was meant.
StripLeftOnly(s) == LStrip(s)

\* s.strip()
Strip(s) == LStrip(RStrip(s))

RECURSIVE SplitLines(_)
\* s.split("\n"): always at least one (possibly empty) line.
SplitLines(s) ==
    IF Find(s, <<"\n">>) = -1 THEN <<s>>
    ELSE <<Slice(s, 0, Find(s, <<"\n">>))>>
             \o SplitLines(SliceFrom(s, Find(s, <<"\n">>) + 1))

RECURSIVE JoinLines(_)
\* "\n".join(lines)
JoinLines(lines) ==
    IF lines = <<>> THEN <<>>
    ELSE IF Len(lines) = 1 THEN lines[1]
    ELSE lines[1] \o <<"\n">> \o JoinLines(Tail(lines))

\* ------------------------------------------------------------------------
\* Literals probed by the normalizer
\* ------------------------------------------------------------------------

\* The backquote character (a token of its own: the parser rejects it in a
\* string literal).
BT == "BACKQUOTE"

\* The double-quote character.
DQ == "\""

MarkerName       == <<DQ, "n", "a", "m", "e", DQ>>
MarkerSignature  == <<DQ, "s", "i", "g", "n", "a", "t", "u", "r", "e", DQ>>
MarkerSummary    == <<DQ, "s", "u", "m", "m", "a", "r", "y", DQ>>
MarkerTotalTests ==
    <<DQ, "t", "o", "t", "a", "l", "_", "t", "e", "s", "t", "s", DQ>>
Fence            == <<BT, BT, BT>>
FenceJava        == <<BT, BT, BT, "j", "a", "v", "a">>
FenceJson        == <<BT, BT, BT, "j", "s", "o", "n">>
PackageKw        == <<"p", "a", "c", "k", "a", "g", "e", " ">>
PublicClass      == <<"p", "u", "b", "l", "i", "c", " ", "c", "l", "a", "s", "s">>
PublicInterface  ==
    <<"p", "u", "b", "l", "i", "c", " ", "i", "n", "t", "e", "r", "f", "a", "c", "e">>
Http             == <<"h", "t", "t", "p">>
Www              == <<"w", "w", "w">>
SlashSlash       == <<"/", "/">>

\* ------------------------------------------------------------------------
\* _clean_llm_response
\* ------------------------------------------------------------------------

\* The JSON probe of _clean_llm_response.
LooksLikeJson(t) ==
    \/ Contains(t, MarkerName)
    \/ Contains(t, MarkerSignature)
    \/ Contains(t, MarkerSummary)
    \/ Contains(t, MarkerTotalTests)

\* The Java probe of _clean_llm_response.
LooksLikeJava(t) ==
    /\ Contains(t, PackageKw)
    /\ (Contains(t, PublicClass) \/ Contains(t, PublicInterface))

\* Mutant of ExtractBraces: find("}") where rfind("}") was meant, so the span
\* ends at the first closing brace after the opener.
ExtractBracesFirstCloser(t) ==
    IF /\ Find(t, <<"{">>) # -1
       /\ Find(t, <<"}">>) # -1
       /\ Find(t, <<"}">>) > Find(t, <<"{">>)
    THEN Slice(t, Find(t, <<"{">>), Find(t, <<"}">>) + 1)
    ELSE t

\* Slice to the span from the first "{" to the last "}" when there is one.
ExtractBraces(t) ==
    IF /\ Find(t, <<"{">>) # -1
       /\ RFind(t, <<"}">>) # -1
       /\ RFind(t, <<"}">>) > Find(t, <<"{">>)
    THEN Slice(t, Find(t, <<"{">>), RFind(t, <<"}">>) + 1)
    ELSE t

\* Mutant of StripComment: the "www" test is missing.
StripCommentHttpOnly(line) ==
    IF Contains(line, SlashSlash) /\ ~Contains(line, Http)
    THEN RStrip(Slice(line, 0, Find(line, SlashSlash)))
    ELSE line

\* One iteration of the comment loop: cut the line at "//" unless it holds a URL.
StripComment(line) ==
    IF Contains(line, SlashSlash)
       /\ ~(Contains(line, Http) \/ Contains(line, Www))
    THEN RStrip(Slice(line, 0, Find(line, SlashSlash)))
    ELSE line

\* The comment loop over the lines of the text, joined again.
StripComments(t) ==
    JoinLines([i \in 1..Len(SplitLines(t)) |-> StripComment(SplitLines(t)[i])])

RECURSIVE CommaBeforeCloser(_, _)
\* Does ",\s*[}\]]" match with its comma at 1-based position i?  Called with
\* the position after the comma; skips whitespace up to the closer.
CommaBeforeCloser(t, i) ==
    IF i > Len(t) THEN FALSE
    ELSE IF t[i] \in Whitespace THEN CommaBeforeCloser(t, i + 1)
    ELSE t[i] \in {"}", "]"}

RECURSIVE DropCommasFrom(_, _)
\* re.sub(r",(\s*[}\]])", r"\1", t) from 1-based position i on.
DropCommasFrom(t, i) ==
    IF i > Len(t) THEN <<>>
    ELSE IF t[i] = "," /\ CommaBeforeCloser(t, i + 1)
    THEN DropCommasFrom(t, i + 1)
    ELSE <<t[i]>> \o DropCommasFrom(t, i + 1)

\* re.sub(r",(\s*[}\]])", r"\1", t)
RemoveTrailingCommas(t) == DropCommasFrom(t, 1)

\* The JSON branch.
CleanJson(t) == RemoveTrailingCommas(StripComments(ExtractBraces(t)))

\* Mutant of FenceStart: the markdown probes are skipped, so the code is taken
\* to start at the first "package ".
FenceStartIgnored(t) == -1

\* java_start as computed from the markdown probes; -1 when none applies.
FenceStart(t) ==
    IF Contains(t, FenceJava) THEN Find(t, FenceJava) + 7
    ELSE IF Contains(t, Fence) /\ Contains(SliceFrom(t, Find(t, Fence) + 3), PackageKw)
    THEN Find(t, Fence) + 3
    ELSE -1

\* java_start after the "no markdown" default.
JavaStart(t) == IF FenceStart(t) = -1 THEN Find(t, PackageKw) ELSE FenceStart(t)

\* "Clean up any remaining markdown at the start".
DropLeadingFence(t) ==
    IF StartsWith(t, FenceJava) THEN SliceFrom(t, 7)
    ELSE IF StartsWith(t, Fence) THEN SliceFrom(t, 3)
    ELSE t

\* "Find the actual package declaration if we're still before it".
SeekPackage(t) ==
    IF ~StartsWith(Strip(t), PackageKw) /\ Find(t, PackageKw) # -1
    THEN SliceFrom(t, Find(t, PackageKw))
    ELSE t

\* The head of the Java branch (the "if java_start != -1" block).
JavaHead(t) ==
    IF JavaStart(t) # -1
    THEN SeekPackage(DropLeadingFence(SliceFrom(t, JavaStart(t))))
    ELSE t

\* s[:-3] when s ends with a fence.
DropTrailingFence(t) ==
    IF EndsWith(t, Fence) THEN Slice(t, 0, Len(t) - 3) ELSE t

\* Cut after the last "}".
CutAfterLastBrace(t) ==
    IF RFind(t, <<"}">>) # -1 THEN Slice(t, 0, RFind(t, <<"}">>) + 1) ELSE t

\* The Java branch.
CleanJava(t) == CutAfterLastBrace(DropTrailingFence(JavaHead(t)))

\* Mutant of CleanOther: the '```json' opener is not known, so only its three
\* backquotes are removed.
CleanOtherJsonUnknown(t) ==
    DropTrailingFence(
        IF StartsWith(t, FenceJava) THEN SliceFrom(t, 7)
        ELSE IF StartsWith(t, Fence) THEN SliceFrom(t, 3)
        ELSE t)

\* The branch for other content.
CleanOther(t) ==
    DropTrailingFence(
        IF StartsWith(t, FenceJava) THEN SliceFrom(t, 7)
        ELSE IF StartsWith(t, FenceJson) THEN SliceFrom(t, 7)
        ELSE IF StartsWith(t, Fence) THEN SliceFrom(t, 3)
        ELSE t)

\* Mutant of CleanStripped: the Java probe is evaluated before the JSON probe.
CleanStrippedJavaFirst(t) ==
    IF LooksLikeJava(t) THEN CleanJava(t)
    ELSE IF LooksLikeJson(t) THEN CleanJson(t)
    ELSE CleanOther(t)

\* The branches applied to the stripped text.
CleanStripped(t) ==
    IF LooksLikeJson(t) THEN CleanJson(t)
    ELSE IF LooksLikeJava(t) THEN CleanJava(t)
    ELSE CleanOther(t)

\* _clean_llm_response(response_text)
CleanLLMResponse(text) == Strip(CleanStripped(Strip(text)))

\* ------------------------------------------------------------------------
\* Providers, adapters and backend replies
\* ------------------------------------------------------------------------

Providers == {"gemini", "openai"}

\* The value of current_provider / llm before _initialize_llm sets them (None).
NoProvider == "none"

\* The chunks backend replies are assembled from: a fence, plain text and a
\* JSON object with a trailing comma.
ReplyChunks == {Fence, <<"x">>, <<"{">> \o MarkerName \o <<",", "}">>}

RECURSIVE ChunkTexts(_)
\* All concatenations of at most n chunks.
ChunkTexts(n) ==
    IF n = 0 THEN {<<>>}
    ELSE ChunkTexts(n - 1)
             \cup {t \o c : t \in ChunkTexts(n - 1), c \in ReplyChunks}

\* The raw texts a backend may return.
ReplyTexts == ChunkTexts(MaxRawChunks)

\* What a backend does on one call: return raw text, or raise.
BackendFailure == [ok |-> FALSE, text |-> <<>>]
BackendOutcomes == {[ok |-> TRUE, text |-> t] : t \in ReplyTexts} \cup {BackendFailure}

\* GeminiLLMWrapper._clean_llm_response on each raw text, tabulated.
WrapperCleaned == [t \in ReplyTexts |-> CleanLLMResponse(t)]

\* AutonomousLLMManager._clean_llm_response on each text an adapter's response
\* may carry, tabulated.
ManagerCleaned ==
    [t \in ReplyTexts \cup {WrapperCleaned[u] : u \in ReplyTexts} |->
        CleanLLMResponse(t)]

\* GeminiLLMWrapper.invoke: the backend's text is cleaned by the wrapper's own
\* _clean_llm_response and wrapped in a GeminiResponse; any failure is raised.
GeminiInvoke(outcome) ==
    IF outcome.ok
    THEN [ok |-> TRUE, text |-> WrapperCleaned[outcome.text]]
    ELSE BackendFailure

\* self.llm.invoke(messages, **kwargs) on the adapter held: the gemini wrapper,
\* or the chat-completion client, whose response carries the raw text.
AdapterInvoke(adapter, outcome) ==
    IF adapter = "gemini" THEN GeminiInvoke(outcome) ELSE outcome

\* What a caller passes to invoke(messages, **kwargs): a message list and the
\* names of the keyword options given.
Requests ==
    {[messages |-> <<"question">>, kwargs |-> {}],
     [messages |-> <<"instructions", "question">>, kwargs |-> {"temperature"}]}

\* No request.
NoRequest == [messages |-> <<>>, kwargs |-> {}]

\* "Clean response from both providers": what invoke returns for a response.
CleanedContent(response) == ManagerCleaned[response.text]

\* ------------------------------------------------------------------------
\* AutonomousLLMManager
\* ------------------------------------------------------------------------

VARIABLES
    gemini_api_key,    \* bool(self.gemini_api_key)
    openai_api_key,    \* bool(self.openai_api_key)
    current_provider,  \* self.current_provider
    llm,               \* the adapter self.llm holds, by provider; NoProvider = None
    phase,             \* "new", "ready" (constructed) or "ctor_failed"
    attempts,          \* per provider, how __init__'s _try_<provider>() went
    constructed,       \* providers whose adapter construction has succeeded
    invokes,           \* number of invoke calls made so far
    failed,            \* has an invoke on this instance raised?
    result,            \* what the last __init__ / invoke gave its caller
    response_text,     \* a text handed to _clean_llm_response
    cleaned,           \* what successive _clean_llm_response calls returned
    messages,          \* a message list handed to _convert_messages_to_prompt
    prompt,            \* the prompts _convert_messages_to_prompt returned
    stage,             \* main: 0 before the configuration, then the stage number
    completed,         \* main: what the stages run so far returned, in order
    exit_code,         \* main: its return value, -1 while it is running
    last_provider,     \* the provider the previous stage's manager ended on
    threads            \* per thread inside invoke: its position and its locals

\* The state of one AutonomousLLMManager and its caller's view of it.
managerVars == <<gemini_api_key, openai_api_key, current_provider, llm, phase,
                 attempts, constructed, invokes, failed, result>>

\* The arguments and results of the pure helpers exercised on their own.
helperVars == <<response_text, cleaned, messages, prompt>>

\* The position and the results of main.
mainVars == <<stage, completed, exit_code, last_provider>>

vars == <<managerVars, helperVars, mainVars, threads>>

\* "ok" / "failed" for something that was tried; "none" stands for not tried.
Outcome(ok) == IF ok THEN "ok" ELSE "failed"

\* Result before any operation.  kind, content, named are what the caller
\* gets; the other fields log the operation: the provider active when it
\* started, the providers whose backend was called (in order), the raw text of
\* the call that succeeded, how the first call, the fallback's adapter
\* construction and the retry went, what invoke was given (args) and what it
\* passed to each adapter call (sent, in the order of calls).
NoResult ==
    [kind |-> "none", content |-> <<>>, named |-> NoProvider,
     start |-> NoProvider, calls |-> <<>>, raw |-> <<>>, served |-> NoProvider,
     first |-> "none", ctor |-> "none", second |-> "none",
     args |-> NoRequest, sent |-> <<>>]

\* Mutant of InitializeLLM: a failed _try_gemini() ends the selection instead of
\* falling through to the OpenAI block.
InitializeLLMNoFallThrough(gkey, okey, gOk, oOk) ==
    IF gkey THEN (IF gOk THEN "gemini" ELSE NoProvider)
    ELSE IF okey /\ oOk THEN "openai"
    ELSE NoProvider

\* Mutant of InitializeLLM: the "if self.<provider>_api_key" guards are dropped,
\* so a provider is tried whether or not its credential is present.
InitializeLLMIgnoringKeys(gkey, okey, gOk, oOk) ==
    IF gOk THEN "gemini"
    ELSE IF oOk THEN "openai"
    ELSE NoProvider

\* _initialize_llm: the provider selected, NoProvider when it raises.  gOk and
\* oOk tell whether _try_gemini / _try_openai succeed when they are called.
InitializeLLM(gkey, okey, gOk, oOk) ==
    IF gkey /\ gOk THEN "gemini"
    ELSE IF okey /\ oOk THEN "openai"
    ELSE NoProvider

\* _initialize_llm: which _try_<provider>() it calls, and how each went.
InitAttempts(gkey, okey, gOk, oOk) ==
    [gemini |-> IF gkey THEN Outcome(gOk) ELSE "none",
     openai |-> IF okey /\ ~(gkey /\ gOk) THEN Outcome(oOk) ELSE "none"]

\* Mutant of FallbackTarget: the "and self.<provider>_api_key" conjuncts are
\* dropped, so the fallback is taken without the alternate's credential.
FallbackTargetIgnoringKeys(cp, gkey, okey) ==
    IF cp = "gemini" THEN "openai"
    ELSE IF cp = "openai" THEN "gemini"
    ELSE NoProvider

\* The branch of invoke's except block: the provider to fall back to, or
\* NoProvider for the final else.
FallbackTarget(cp, gkey, okey) ==
    IF cp = "gemini" /\ okey THEN "openai"
    ELSE IF cp = "openai" /\ gkey THEN "gemini"
    ELSE NoProvider

\* Mutant of SwitchedProvider: the assignment to current_provider is missing.
SwitchedProviderStale(cp, target) == cp

\* self.current_provider = "<target>" after _try_<target>() succeeded.
SwitchedProvider(cp, target) == target

\* Mutant of RetryCalls: after the retry the first provider is tried again.
RetryCallsPingPong(cp, target) == <<target, cp>>

\* The adapters called by the fallback branch after the adapter that failed:
\* one retry on the adapter just constructed.
RetryCalls(cp, target) == <<target>>

\* Mutant of RetryRequest: the retry passes the messages without the options.
RetryRequestWithoutOptions(request) == [request EXCEPT !.kwargs = {}]

\* What the fallback branch passes to the new adapter:
\* self.llm.invoke(messages, **kwargs), the arguments invoke was given.
RetryRequest(request) == request

\* The provider named by "Both {self.current_provider} and fallback API
\* failed": current_provider as it is when the exception is built.
NamedInBothFailed(cp, target, switched) == IF switched THEN target ELSE cp

\* main is not running, and no thread is inside invoke.
MainIdle ==
    /\ stage = 0
    /\ completed = <<>>
    /\ exit_code = -1
    /\ last_provider = NoProvider
    /\ threads = <<>>

Init ==
    /\ gemini_api_key \in BOOLEAN
    /\ openai_api_key \in BOOLEAN
    /\ current_provider = NoProvider
    /\ llm = NoProvider
    /\ phase = "new"
    /\ attempts = [gemini |-> "none", openai |-> "none"]
    /\ constructed = {}
    /\ invokes = 0
    /\ failed = FALSE
    /\ result = NoResult
    /\ response_text = <<>>
    /\ cleaned = <<>>
    /\ messages = <<>>
    /\ prompt = <<>>
    /\ MainIdle

\* AutonomousLLMManager.__init__
Construct ==
    /\ phase = "new"
    /\ \E gOk \in BOOLEAN, oOk \in BOOLEAN :
         LET p == InitializeLLM(gemini_api_key, openai_api_key, gOk, oOk) IN
         /\ current_provider' = p
         /\ llm' = p
         /\ attempts' = InitAttempts(gemini_api_key, openai_api_key, gOk, oOk)
         /\ constructed' = IF p = NoProvider THEN {} ELSE {p}
         /\ phase' = IF p = NoProvider THEN "ctor_failed" ELSE "ready"
         /\ result' = IF p = NoProvider
                      THEN [NoResult EXCEPT !.kind = "NoProviderAvailable"]
                      ELSE NoResult
    /\ UNCHANGED <<gemini_api_key, openai_api_key, invokes, failed, helperVars,
                   mainVars, threads>>

\* Mutant of InvokeDirect: the preferred provider is selected again on every
\* invoke, as _initialize_llm would.
InvokeDirectReselecting(request, first) ==
    /\ result' = [NoResult EXCEPT
                    !.kind = "ok",
                    !.content = CleanedContent(AdapterInvoke(llm, first)),
                    !.start = current_provider,
                    !.calls = <<llm>>,
                    !.args = request,
                    !.sent = <<request>>,
                    !.raw = first.text,
                    !.served = llm,
                    !.first = "ok"]
    /\ current_provider' = IF gemini_api_key THEN "gemini" ELSE current_provider
    /\ llm' = IF gemini_api_key THEN "gemini" ELSE llm
    /\ constructed' = IF gemini_api_key THEN constructed \cup {"gemini"}
                      ELSE constructed
    /\ UNCHANGED failed

\* invoke, first call succeeded: the cleaned response is returned.
InvokeDirect(request, first) ==
    /\ result' = [NoResult EXCEPT
                    !.kind = "ok",
                    !.content = CleanedContent(AdapterInvoke(llm, first)),
                    !.start = current_provider,
                    !.calls = <<llm>>,
                    !.args = request,
                    !.sent = <<request>>,
                    !.raw = first.text,
                    !.served = llm,
                    !.first = "ok"]
    /\ UNCHANGED <<current_provider, llm, constructed, failed>>

\* Mutant of FallbackNotConstructed: current_provider is assigned before
\* _try_<target>() is called, so a failed construction leaves it switched.
FallbackHalfApplied(request, target) ==
    /\ result' = [NoResult EXCEPT
                    !.kind = "AllProvidersExhausted",
                    !.named = NamedInBothFailed(current_provider, target, TRUE),
                    !.start = current_provider,
                    !.calls = <<llm>>,
                    !.args = request,
                    !.sent = <<request>>,
                    !.first = "failed",
                    !.ctor = "failed"]
    /\ failed' = TRUE
    /\ current_provider' = target
    /\ UNCHANGED <<llm, constructed>>

\* invoke, first call failed and a fallback branch is taken: _try_<target>()
\* raised, so nothing was switched and no retry is made.
FallbackNotConstructed(request, target) ==
    /\ result' = [NoResult EXCEPT
                    !.kind = "AllProvidersExhausted",
                    !.named = NamedInBothFailed(current_provider, target, FALSE),
                    !.start = current_provider,
                    !.calls = <<llm>>,
                    !.args = request,
                    !.sent = <<request>>,
                    !.first = "failed",
                    !.ctor = "failed"]
    /\ failed' = TRUE
    /\ UNCHANGED <<current_provider, llm, constructed>>

\* invoke, first call failed and a fallback branch is taken: _try_<target>()
\* succeeded, current_provider is switched and the call is retried on the new
\* adapter; second is what the target's backend does.
FallbackRetry(request, target, second) ==
    /\ llm' = target
    /\ current_provider' = SwitchedProvider(current_provider, target)
    /\ constructed' = constructed \cup {target}
    /\ IF AdapterInvoke(target, second).ok
       THEN /\ result' = [NoResult EXCEPT
                            !.kind = "ok",
                            !.content =
                                CleanedContent(AdapterInvoke(target, second)),
                            !.start = current_provider,
                            !.calls = <<llm>> \o RetryCalls(llm, target),
                            !.args = request,
                            !.sent = <<request, RetryRequest(request)>>,
                            !.raw = second.text,
                            !.served = target,
                            !.first = "failed",
                            !.ctor = "ok",
                            !.second = "ok"]
            /\ UNCHANGED failed
       ELSE /\ result' = [NoResult EXCEPT
                            !.kind = "AllProvidersExhausted",
                            !.named = NamedInBothFailed(current_provider, target,
                                                        TRUE),
                            !.start = current_provider,
                            !.calls = <<llm>> \o RetryCalls(llm, target),
                            !.args = request,
                            !.sent = <<request, RetryRequest(request)>>,
                            !.first = "failed",
                            !.ctor = "ok",
                            !.second = "failed"]
            /\ failed' = TRUE

\* invoke, first call failed and no fallback branch applies.
InvokeNoFallback(request) ==
    /\ result' = [NoResult EXCEPT
                    !.kind = "NoFallbackAvailable",
                    !.named = current_provider,
                    !.start = current_provider,
                    !.calls = <<llm>>,
                    !.args = request,
                    !.sent = <<request>>,
                    !.first = "failed"]
    /\ failed' = TRUE
    /\ UNCHANGED <<current_provider, llm, constructed>>

\* The except block of invoke.
InvokeExcept(request) ==
    IF FallbackTarget(current_provider, gemini_api_key, openai_api_key)
           # NoProvider
    THEN \E ctorOk \in BOOLEAN :
           IF ctorOk
           THEN \E second \in BackendOutcomes :
                  FallbackRetry(request,
                                FallbackTarget(current_provider, gemini_api_key,
                                               openai_api_key), second)
           ELSE FallbackNotConstructed(
                    request,
                    FallbackTarget(current_provider, gemini_api_key,
                                   openai_api_key))
    ELSE InvokeNoFallback(request)

\* AutonomousLLMManager.invoke
Invoke ==
    /\ phase = "ready"
    /\ invokes < MaxInvokes
    /\ invokes' = invokes + 1
    /\ \E request \in Requests, first \in BackendOutcomes :
         IF AdapterInvoke(llm, first).ok
         THEN InvokeDirect(request, first)
         ELSE InvokeExcept(request)
    /\ UNCHANGED <<gemini_api_key, openai_api_key, phase, attempts, helperVars,
                   mainVars, threads>>

Next == Construct \/ Invoke

Spec == Init /\ [][Next]_vars

\* get_current_provider, read as the invoker state of the design.
InvokerState ==
    IF current_provider = "gemini" THEN "UsingPrimary"
    ELSE IF current_provider = "openai" THEN "UsingSecondary"
    ELSE "Failed"

\* is_gemini_available / is_openai_available
KeyPresent(p) == IF p = "gemini" THEN gemini_api_key ELSE openai_api_key

\* The other provider.
Alternate(p) == IF p = "gemini" THEN "openai" ELSE "gemini"

TypeOK ==
    /\ gemini_api_key \in BOOLEAN /\ openai_api_key \in BOOLEAN
    /\ current_provider \in Providers \cup {NoProvider}
    /\ llm \in Providers \cup {NoProvider}
    /\ phase \in {"new", "ready", "ctor_failed"}
    /\ attempts \in [{"gemini", "openai"} -> {"none", "ok", "failed"}]
    /\ constructed \subseteq Providers
    /\ invokes \in 0..MaxInvokes
    /\ failed \in BOOLEAN

\* ------------------------------------------------------------------------
\* Properties of the fallback invoker
\* ------------------------------------------------------------------------

\* The last invoke started on gemini with both credentials, its gemini call
\* failed, and the openai adapter's construction and call succeeded.
FallbackSwitchCase ==
    /\ gemini_api_key /\ openai_api_key
    /\ result.start = "gemini"
    /\ result.first = "failed"
    /\ result.ctor = "ok"
    /\ result.second = "ok"

\* C1: when the primary's call fails and the secondary's adapter construction
\* and call succeed, invoke returns the secondary's normalized response
\* without raising, having called gemini then openai, and the active provider
\* afterwards is the secondary.
FallbackSwitch ==
    FallbackSwitchCase =>
        /\ result.kind = "ok"
        /\ result.served = "openai"
        /\ result.calls = <<"gemini", "openai">>
        /\ result.content = CleanLLMResponse(result.raw)
        /\ current_provider = "openai"
        /\ llm = "openai"
        /\ InvokerState = "UsingSecondary"

\* C1 witness: a fallback from gemini to openai that returned a non-empty
\* normalized text.
FallbackSwitchWitness ==
    /\ FallbackSwitchCase
    /\ result.kind = "ok"
    /\ result.content # <<>>
    /\ current_provider = "openai"

\* C2 (as claimed): after a double failure the caller gets
\* AllProvidersExhausted and the invoker is in state Failed, no longer
\* UsingPrimary or UsingSecondary.
DoubleFailureBecomesFailed ==
    (result.first = "failed" /\ result.second = "failed") =>
        /\ result.kind = "AllProvidersExhausted"
        /\ InvokerState = "Failed"

\* C3 (as claimed): once an invoke on the instance has failed, no later
\* invoke returns a result to the caller.
NoRecoveryFromFailed == [][failed => result'.kind # "ok"]_vars

\* C4: one invoke issues at most two backend calls, the first to the provider
\* active when it started and the second, if any, to the other provider, which
\* is then the active one: within one invoke the provider is switched at most
\* once.
AtMostTwoCalls ==
    /\ Len(result.calls) <= 2
    /\ result.calls # <<>> => result.calls[1] = result.start
    /\ Len(result.calls) = 2 =>
           /\ result.calls[2] = Alternate(result.calls[1])
           /\ current_provider = result.calls[2]
    /\ (Len(result.calls) = 1 /\ result.kind # "none") =>
           current_provider = result.start

\* C4 witness: two failing providers; the invoke stopped after the second call.
AtMostTwoCallsWitness ==
    /\ Len(result.calls) = 2
    /\ result.first = "failed"
    /\ result.second = "failed"
    /\ invokes >= 2

\* C5: after a successful construction and any sequence of invokes, exactly
\* one provider is active, the adapter held is that provider's, its credential
\* is present and its adapter construction succeeded.
ExactlyOneActive ==
    phase = "ready" =>
        /\ current_provider \in Providers
        /\ llm = current_provider
        /\ KeyPresent(current_provider)
        /\ current_provider \in constructed

\* C5 witness: an instance that has seen a failed invoke and a fallback, with
\* both adapters constructed at some point.
ExactlyOneActiveWitness ==
    /\ phase = "ready"
    /\ failed
    /\ constructed = Providers
    /\ invokes >= 2

\* C6: with neither credential present construction fails with
\* NoProviderAvailable, no adapter construction is attempted and no backend
\* call is issued; the same failure results when no attempted adapter
\* construction succeeds.
NoCredentialsNoConstruction ==
    /\ (phase # "new" /\ ~gemini_api_key /\ ~openai_api_key) =>
           /\ attempts = [gemini |-> "none", openai |-> "none"]
    /\ (phase # "new" /\ attempts["gemini"] # "ok" /\ attempts["openai"] # "ok") =>
           /\ phase = "ctor_failed"
           /\ result.kind = "NoProviderAvailable"
           /\ constructed = {}
           /\ llm = NoProvider
           /\ invokes = 0
           /\ result.calls = <<>>

\* C6 witness: construction without credentials has failed.
NoCredentialsWitness ==
    /\ phase = "ctor_failed"
    /\ ~gemini_api_key
    /\ ~openai_api_key

\* Only the openai credential is present and _try_openai succeeded in __init__.
OnlySecondaryCase ==
    /\ phase # "new"
    /\ ~gemini_api_key
    /\ openai_api_key
    /\ attempts["openai"] = "ok"

\* C7: with only the secondary credential present and its adapter constructed,
\* the initial state is UsingSecondary, and a first invoke whose backend call
\* succeeds returns that normalized response from openai with no call to the
\* primary.
OnlySecondary ==
    /\ (OnlySecondaryCase /\ invokes = 0) =>
           /\ phase = "ready"
           /\ InvokerState = "UsingSecondary"
           /\ llm = "openai"
    /\ (OnlySecondaryCase /\ invokes = 1 /\ result.first = "ok") =>
           /\ result.kind = "ok"
           /\ result.served = "openai"
           /\ result.calls = <<"openai">>
           /\ result.content = CleanLLMResponse(result.raw)
           /\ InvokerState = "UsingSecondary"

\* C7 witness: the first invoke of an openai-only instance returned a text.
OnlySecondaryWitness ==
    /\ OnlySecondaryCase
    /\ invokes = 1
    /\ result.kind = "ok"
    /\ result.content # <<>>

\* C8 (as claimed): when the active provider's call fails and the alternate's
\* credential is absent, there is no second backend call, invoke fails with
\* NoFallbackAvailable and the invoker is in state Failed.
NoFallbackBecomesFailed ==
    (result.first = "failed" /\ ~KeyPresent(Alternate(result.start))) =>
        /\ Len(result.calls) = 1
        /\ result.kind = "NoFallbackAvailable"
        /\ InvokerState = "Failed"

\* C9 (as claimed): using openai with the gemini credential present, a failed
\* call makes the invoker construct the gemini adapter, switch and retry once;
\* a successful retry is returned in state UsingPrimary, anything else fails
\* with AllProvidersExhausted in state Failed.
SymmetricFallback ==
    (result.start = "openai" /\ result.first = "failed" /\ gemini_api_key) =>
        IF result.ctor = "ok" /\ result.second = "ok"
        THEN /\ result.kind = "ok"
             /\ result.calls = <<"openai", "gemini">>
             /\ InvokerState = "UsingPrimary"
        ELSE /\ result.kind = "AllProvidersExhausted"
             /\ InvokerState = "Failed"

\* C10 (as claimed): the content of every successful invoke is one
\* application of the normalizer to the raw text of the backend that served
\* it, whichever adapter that was.
SingleNormalization ==
    result.kind = "ok" => result.content = CleanLLMResponse(result.raw)

\* ------------------------------------------------------------------------
\* _clean_llm_response on its own
\* ------------------------------------------------------------------------

RECURSIVE Concats(_, _)
\* All concatenations of at most n chunks out of a set of chunks.
Concats(chunks, n) ==
    IF n = 0 THEN {<<>>}
    ELSE Concats(chunks, n - 1)
             \cup {t \o c : t \in Concats(chunks, n - 1), c \in chunks}

\* Chunks of texts without a shape marker: fences, text and whitespace.
OtherChunks == {Fence, FenceJava, FenceJson, <<"x">>, <<" ">>, <<"\n">>}

\* Texts of the "other content" shape.
OtherTexts == Concats(OtherChunks, MaxNormChunks)

\* How JSON-shaped texts start: a marker alone, noise before the opening brace,
\* and a stray closing brace before it.
JsonHeads ==
    {MarkerName,
     <<"x", " ", "{">> \o MarkerTotalTests,
     <<"}", "{">> \o MarkerSummary}

\* What follows the head: braces, brackets, commas, whitespace and comments.
JsonChunks == {<<"{">>, <<"}">>, <<"]">>, <<",">>, <<" ">>, <<"\n">>, SlashSlash}

\* How JSON-shaped texts end: nothing, or a line of noise.
JsonTails == {<<>>, <<"\n", "x">>}

\* Texts of the JSON shape.
JsonTexts ==
    {h \o b \o t : h \in JsonHeads, b \in Concats(JsonChunks, MaxNormChunks),
                   t \in JsonTails}

\* 'noise {"name": "x", "total_tests": 3,}\nnoise'
JsonExample ==
    <<"n", "o", "i", "s", "e", " ", "{">> \o MarkerName
        \o <<":", " ", DQ, "x", DQ, ",", " ">> \o MarkerTotalTests
        \o <<":", " ", "3", ",", "}", "\n", "n", "o", "i", "s", "e">>

\* What the lines after the marker line are made of: text, whitespace,
\* comment openers, URL fragments and line ends.
CommentChunks == {<<"x">>, <<" ">>, SlashSlash, Http, Www, <<"\n">>}

\* JSON-shaped texts made of a marker line followed by such lines.
CommentTexts ==
    {MarkerName \o <<"\n">> \o b : b \in Concats(CommentChunks, MaxNormChunks)}

\* 'value: 5'
ValueLine == <<"v", "a", "l", "u", "e", ":", " ", "5">>

\* '"name"' on one line, then 'value: 5 // see http://example.com'
CommentExampleUrl ==
    MarkerName \o <<"\n">> \o ValueLine \o <<" ">> \o SlashSlash
        \o <<" ", "s", "e", "e", " ">> \o Http \o <<":">> \o SlashSlash
        \o <<"e", "x", "a", "m", "p", "l", "e", ".", "c", "o", "m">>

\* '"name"' on one line, then 'value: 5 // drop me'
CommentExampleDrop ==
    MarkerName \o <<"\n">> \o ValueLine \o <<" ">> \o SlashSlash
        \o <<" ", "d", "r", "o", "p", " ", "m", "e">>

\* 'Here is the code:' and a line end
JavaIntro ==
    <<"H", "e", "r", "e", " ", "i", "s", " ", "t", "h", "e", " ", "c", "o",
      "d", "e", ":", "\n">>

\* What the prose before a fenced Java block is made of.
JavaPreChunks == {JavaIntro, FenceJava, PackageKw}

\* The prose before a fenced Java block.
JavaPres == Concats(JavaPreChunks, MaxNormChunks)

\* 'package a.b;' and 'public class X {}' on two lines
JavaClassCode ==
    <<"p", "a", "c", "k", "a", "g", "e", " ", "a", ".", "b", ";", "\n", "p",
      "u", "b", "l", "i", "c", " ", "c", "l", "a", "s", "s", " ", "X", " ",
      "{", "}">>

\* 'package a;' and 'public interface I {}' on two lines
JavaInterfaceCode ==
    <<"p", "a", "c", "k", "a", "g", "e", " ", "a", ";", "\n", "p", "u", "b",
      "l", "i", "c", " ", "i", "n", "t", "e", "r", "f", "a", "c", "e", " ",
      "I", " ", "{", "}">>

\* The code inside the fenced block.
JavaCodes == {JavaClassCode, JavaInterfaceCode}

\* A line end and 'Hope this helps!'
JavaOutro ==
    <<"\n", "H", "o", "p", "e", " ", "t", "h", "i", "s", " ", "h", "e", "l",
      "p", "s", "!">>

\* The prose after the fenced block: none, the closing remark, a second
\* fence, and a stray closing brace.
JavaPosts == {<<>>, JavaOutro, <<" ">> \o Fence, <<"\n", "}">>}

\* pre, the '```java' opener on its own line end, the code, and the closing
\* fence on a line of its own followed by post.
FencedJava(pre, code, post) ==
    pre \o FenceJava \o <<"\n">> \o code \o <<"\n">> \o Fence \o post

\* Texts holding a fenced Java block between prose.
JavaTexts ==
    {FencedJava(pre, code, post) :
         pre \in JavaPres, code \in JavaCodes, post \in JavaPosts}

\* What precedes a plain fence: prose and the word 'package '.
PlainPres == Concats({JavaIntro, PackageKw}, MaxNormChunks)

\* What stands between a plain fence and the code: nothing, a line end, and a
\* line of text.
PlainGaps == {<<>>, <<"\n">>, <<"t", "e", "x", "t", "\n">>}

\* Texts holding Java code after a plain fence.
PlainFencedTexts ==
    {pre \o Fence \o gap \o code :
         pre \in PlainPres, gap \in PlainGaps, code \in JavaCodes}

\* Chunks of texts that carry the markers of several shapes at once.
ShapeChunks == {MarkerName, PackageKw, PublicClass, <<"{">>, <<"}">>, Fence}

\* Texts with a JSON marker, the Java keywords, both or neither.
ShapeTexts == Concats(ShapeChunks, MaxNormChunks)

\* The texts handed to _clean_llm_response.
NormTexts ==
    OtherTexts \cup JsonTexts \cup CommentTexts \cup JavaTexts \cup ShapeTexts
        \cup PlainFencedTexts
        \cup {JsonExample, CommentExampleUrl, CommentExampleDrop}

\* The manager is not involved when a helper is exercised on its own.
ManagerIdle ==
    /\ gemini_api_key = FALSE
    /\ openai_api_key = FALSE
    /\ current_provider = NoProvider
    /\ llm = NoProvider
    /\ phase = "new"
    /\ attempts = [gemini |-> "none", openai |-> "none"]
    /\ constructed = {}
    /\ invokes = 0
    /\ failed = FALSE
    /\ result = NoResult

NormInit ==
    /\ ManagerIdle
    /\ response_text \in NormTexts
    /\ cleaned = <<>>
    /\ messages = <<>>
    /\ prompt = <<>>
    /\ MainIdle

\* One call of _clean_llm_response: on the text first, then on what the
\* previous call returned.
Normalize ==
    /\ Len(cleaned) < MaxApplications
    /\ cleaned' = Append(cleaned,
                         CleanLLMResponse(IF cleaned = <<>> THEN response_text
                                          ELSE cleaned[Len(cleaned)]))
    /\ UNCHANGED <<managerVars, response_text, messages, prompt, mainVars, threads>>

NormNext == Normalize

SpecNorm == NormInit /\ [][NormNext]_vars

\* ------------------------------------------------------------------------
\* Properties of the normalizer
\* ------------------------------------------------------------------------

\* C11 (as claimed): normalization is idempotent, a second application
\* returns what the first returned.
Idempotent == Len(cleaned) >= 2 => cleaned[2] = cleaned[1]

\* The text between the first and the last character that is not whitespace.
Trimmed(t) ==
    LET solid == {i \in 1..Len(t) : t[i] \notin Whitespace} IN
    IF solid = {} THEN <<>>
    ELSE SubSeq(t, CHOOSE i \in solid : \A j \in solid : i <= j,
                   CHOOSE i \in solid : \A j \in solid : i >= j)

\* A text with no shape marker, no leading fence opener and no trailing fence
\* marker.
PlainText(t) ==
    /\ ~LooksLikeJson(t)
    /\ ~LooksLikeJava(t)
    /\ ~StartsWith(Trimmed(t), Fence)
    /\ ~EndsWith(Trimmed(t), Fence)

\* C12: normalization returns a text for every input; the empty and the
\* whitespace-only text give the empty text, and a text with no shape marker,
\* no leading fence opener and no trailing fence marker gives the trimmed
\* input.
Total ==
    Len(cleaned) >= 1 =>
        /\ \A i \in 1..Len(cleaned[1]) : cleaned[1][i] \in STRING
        /\ Trimmed(response_text) = <<>> => cleaned[1] = <<>>
        /\ PlainText(response_text) => cleaned[1] = Trimmed(response_text)

\* C12 witness: a plain text with whitespace around it was normalized.
TotalWitness ==
    /\ Len(cleaned) >= 1
    /\ PlainText(response_text)
    /\ response_text # Trimmed(response_text)
    /\ cleaned[1] # <<>>

\* The positions of character c in t.
PositionsOf(t, c) == {i \in 1..Len(t) : t[i] = c}

\* A text with a JSON marker whose first "{" precedes its last "}".
JsonSpanCase(t) ==
    /\ LooksLikeJson(t)
    /\ \E i \in PositionsOf(t, "{") : \E j \in PositionsOf(t, "}") : i < j

\* The text from the first "{" to the last "}".
BraceSpan(t) ==
    SubSeq(t, CHOOSE i \in PositionsOf(t, "{") : \A k \in PositionsOf(t, "{") : i <= k,
              CHOOSE j \in PositionsOf(t, "}") : \A k \in PositionsOf(t, "}") : j >= k)

\* The comma at position i is followed by whitespace only, then "}" or "]".
TrailingComma(t, i) ==
    /\ t[i] = ","
    /\ \E j \in (i + 1)..Len(t) :
         /\ t[j] \in {"}", "]"}
         /\ \A k \in (i + 1)..(j - 1) : t[k] \in Whitespace

RECURSIVE KeepFrom(_, _)
\* t from position i on, without its trailing commas.
KeepFrom(t, i) ==
    IF i > Len(t) THEN <<>>
    ELSE (IF TrailingComma(t, i) THEN <<>> ELSE <<t[i]>>) \o KeepFrom(t, i + 1)

\* t without its trailing commas.
WithoutTrailingCommas(t) == KeepFrom(t, 1)

\* '{"name": "x", "total_tests": 3}'
JsonExampleCleaned ==
    <<"{">> \o MarkerName \o <<":", " ", DQ, "x", DQ, ",", " ">>
        \o MarkerTotalTests \o <<":", " ", "3", "}">>

\* C13: for a text with a JSON marker whose first "{" precedes its last "}",
\* the result is the span from the first "{" to the last "}" (nothing before
\* or after it survives), comments stripped, with every comma that is followed
\* by optional whitespace and "}" or "]" removed; a span without "//" is
\* otherwise unchanged, and the example of the design gives
\* '{"name": "x", "total_tests": 3}'.
JsonExtraction ==
    Len(cleaned) >= 1 =>
        /\ JsonSpanCase(response_text) =>
               cleaned[1] = Trimmed(WithoutTrailingCommas(
                                        StripComments(BraceSpan(response_text))))
        /\ (JsonSpanCase(response_text)
              /\ ~Contains(BraceSpan(response_text), SlashSlash)) =>
               cleaned[1] = WithoutTrailingCommas(BraceSpan(response_text))
        /\ response_text = JsonExample => cleaned[1] = JsonExampleCleaned

\* C13 witness: the example of the design, normalized.
JsonExtractionWitness ==
    /\ Len(cleaned) >= 1
    /\ response_text = JsonExample
    /\ cleaned[1] = JsonExampleCleaned

\* A JSON-shaped text on which only the comment rule can act: no closing
\* brace or bracket, so no span is extracted and no comma is dropped.
CommentCase(t) ==
    /\ LooksLikeJson(t)
    /\ PositionsOf(t, "}") = {}
    /\ PositionsOf(t, "]") = {}

\* The positions at which "//" starts in a line.
SlashPairs(line) ==
    {i \in 1..(Len(line) - 1) : line[i] = "/" /\ line[i + 1] = "/"}

\* t without the whitespace at its end.
RightTrimmed(t) ==
    LET solid == {i \in 1..Len(t) : t[i] \notin Whitespace} IN
    IF solid = {} THEN <<>>
    ELSE SubSeq(t, 1, CHOOSE i \in solid : \A j \in solid : i >= j)

\* The comment rule as stated: a line holding "//" is cut at its first "//",
\* trailing whitespace removed, exactly when it holds neither "http" nor "www".
ExpectedLine(line) ==
    IF /\ SlashPairs(line) # {}
       /\ ~Contains(line, Http)
       /\ ~Contains(line, Www)
    THEN RightTrimmed(SubSeq(line, 1,
             (CHOOSE i \in SlashPairs(line) : \A j \in SlashPairs(line) : i <= j) - 1))
    ELSE line

\* The rule applied to every line of a text.
ExpectedLines(t) ==
    JoinLines([i \in 1..Len(SplitLines(t)) |-> ExpectedLine(SplitLines(t)[i])])

\* C14: in a JSON-shaped text a line holding "//" is truncated at the "//",
\* trailing whitespace removed, exactly when the line holds neither "http" nor
\* "www"; 'value: 5 // see http://example.com' is kept whole and
\* 'value: 5 // drop me' becomes 'value: 5'.
CommentStripping ==
    Len(cleaned) >= 1 =>
        /\ CommentCase(response_text) =>
               cleaned[1] = Trimmed(ExpectedLines(Trimmed(response_text)))
        /\ response_text = CommentExampleUrl => cleaned[1] = CommentExampleUrl
        /\ response_text = CommentExampleDrop =>
               cleaned[1] = MarkerName \o <<"\n">> \o ValueLine

\* C14 witness: a text with a line holding "//" and "www", whose "//" is
\* still there after normalization.
CommentStrippingWitness ==
    /\ Len(cleaned) >= 1
    /\ CommentCase(response_text)
    /\ \E i \in 1..Len(SplitLines(response_text)) :
         LET line == SplitLines(response_text)[i] IN
         SlashPairs(line) # {} /\ Contains(line, Www)
    /\ Contains(cleaned[1], SlashSlash)

\* response_text is pre, a fenced block holding code, and post, with no "}"
\* after the closing fence and no JSON marker anywhere.
FencedJavaCase(pre, code, post) ==
    /\ response_text = FencedJava(pre, code, post)
    /\ PositionsOf(post, "}") = {}
    /\ ~LooksLikeJson(response_text)

\* Some "package " comes after a '```java' inside the prose.
PackageAfterJavaFence(prose) ==
    \E i \in Occurrences(prose, FenceJava) :
        \E j \in Occurrences(prose, PackageKw) : j > i

\* C15 (as claimed): for every text made of prose, a '```java' fenced block
\* whose code starts with "package ", declares a public class or interface
\* and ends with "}", and prose without "}", the result is exactly the code.
JavaExtraction ==
    (Len(cleaned) >= 1 /\ LooksLikeJava(response_text)) =>
        \A pre \in JavaPres, code \in JavaCodes, post \in JavaPosts :
            FencedJavaCase(pre, code, post) => cleaned[1] = code

\* C15 (amended): the same, for texts whose leading prose has no "package "
\* after a '```java' of its own.
JavaExtractionFirstFence ==
    (Len(cleaned) >= 1 /\ LooksLikeJava(response_text)) =>
        \A pre \in JavaPres, code \in JavaCodes, post \in JavaPosts :
            (FencedJavaCase(pre, code, post) /\ ~PackageAfterJavaFence(pre))
                => cleaned[1] = code

\* C15 witness: the example of the design, normalized to its code.
JavaExtractionWitness ==
    /\ Len(cleaned) >= 1
    /\ response_text = FencedJava(JavaIntro, JavaClassCode, JavaOutro)
    /\ cleaned[1] = JavaClassCode

\* ------------------------------------------------------------------------
\* GeminiLLMWrapper._convert_messages_to_prompt on its own
\* ------------------------------------------------------------------------

\* The message classes: SystemMessage, HumanMessage, and any other (AIMessage).
Roles == {"system", "human", "ai"}

\* Message contents: empty, one word, and two paragraphs.
MessageContents == {<<>>, <<"a">>, <<"b", "\n", "\n", "c">>}

\* The messages.
Messages == [role : Roles, content : MessageContents]

RECURSIVE MessageLists(_)
\* The message lists of at most n messages.
MessageLists(n) ==
    IF n = 0 THEN {<<>>}
    ELSE MessageLists(n - 1)
             \cup {Append(l, m) : l \in MessageLists(n - 1), m \in Messages}

\* "System: " and "Human: "
SystemPrefix == <<"S", "y", "s", "t", "e", "m", ":", " ">>
HumanPrefix  == <<"H", "u", "m", "a", "n", ":", " ">>

\* The entry appended to prompt_parts for one message.
PromptPart(message) ==
    IF message.role = "system" THEN SystemPrefix \o message.content
    ELSE IF message.role = "human" THEN HumanPrefix \o message.content
    ELSE message.content

RECURSIVE Join(_, _)
\* sep.join(parts)
Join(sep, parts) ==
    IF parts = <<>> THEN <<>>
    ELSE IF Len(parts) = 1 THEN parts[1]
    ELSE parts[1] \o sep \o Join(sep, Tail(parts))

\* Mutant of ConvertMessagesToPrompt: "\n".join where "\n\n".join was meant.
ConvertMessagesSingleNewline(msgs) ==
    Join(<<"\n">>, [i \in 1..Len(msgs) |-> PromptPart(msgs[i])])

\* _convert_messages_to_prompt(messages)
ConvertMessagesToPrompt(msgs) ==
    Join(<<"\n", "\n">>, [i \in 1..Len(msgs) |-> PromptPart(msgs[i])])

PromptInit ==
    /\ ManagerIdle
    /\ response_text = <<>>
    /\ cleaned = <<>>
    /\ messages \in MessageLists(MaxMessages)
    /\ prompt = <<>>
    /\ MainIdle

\* One call of _convert_messages_to_prompt.
ConvertMessages ==
    /\ prompt = <<>>
    /\ prompt' = <<ConvertMessagesToPrompt(messages)>>
    /\ UNCHANGED <<managerVars, response_text, cleaned, messages, mainVars, threads>>

PromptNext == ConvertMessages

SpecPrompt == PromptInit /\ [][PromptNext]_vars

\* ------------------------------------------------------------------------
\* Properties of the prompt conversion
\* ------------------------------------------------------------------------

\* The entry the design gives for a system or human message.
RoleEntry(message) ==
    (IF message.role = "system" THEN <<"S", "y", "s", "t", "e", "m">>
     ELSE <<"H", "u", "m", "a", "n">>) \o <<":", " ">> \o message.content

RECURSIVE Flattened(_)
\* The entries of the messages in order, a blank line between neighbours.
Flattened(msgs) ==
    IF msgs = <<>> THEN <<>>
    ELSE IF Len(msgs) = 1 THEN RoleEntry(msgs[1])
    ELSE Flattened(SubSeq(msgs, 1, Len(msgs) - 1))
             \o <<"\n", "\n">> \o RoleEntry(msgs[Len(msgs)])

\* C16: for a list of system and human messages the prompt is the
\* concatenation, in order, of "System: <content>" / "Human: <content>" per
\* message, neighbours separated by exactly "\n\n"; nothing is dropped,
\* duplicated or reordered.
MessageFlattening ==
    (Len(prompt) = 1
       /\ \A i \in 1..Len(messages) : messages[i].role \in {"system", "human"}) =>
        prompt[1] = Flattened(messages)

\* C16 witness: a system message followed by a human message, flattened.
MessageFlatteningWitness ==
    /\ Len(prompt) = 1
    /\ Len(messages) = 2
    /\ messages[1].role = "system" /\ messages[1].content # <<>>
    /\ messages[2].role = "human" /\ messages[2].content # <<>>
    /\ messages[1].content # messages[2].content

\* ------------------------------------------------------------------------
\* Properties of provider selection and of invoke
\* ------------------------------------------------------------------------

\* The state right after __init__ returned or raised.
JustConstructed == phase # "new" /\ invokes = 0

\* C17: with the primary credential present and the primary construction
\* succeeding, the initial state is UsingPrimary whatever the secondary
\* credential is, and the secondary adapter is not constructed; with the primary
\* credential present and its construction failing, selection falls through to
\* the secondary, and the initial state is UsingSecondary when the secondary
\* credential is present and its construction succeeds.
InitialSelection ==
    JustConstructed =>
        /\ (gemini_api_key /\ attempts.gemini = "ok") =>
               /\ InvokerState = "UsingPrimary"
               /\ llm = "gemini"
               /\ attempts.openai = "none"
               /\ constructed = {"gemini"}
        /\ (gemini_api_key /\ attempts.gemini = "failed" /\ openai_api_key) =>
               attempts.openai # "none"
        /\ (gemini_api_key /\ attempts.gemini = "failed"
              /\ openai_api_key /\ attempts.openai = "ok") =>
               /\ InvokerState = "UsingSecondary"
               /\ llm = "openai"
               /\ constructed = {"openai"}

\* C17 witness: both credentials present, the primary construction failed and
\* the secondary one succeeded.
InitialSelectionWitness ==
    /\ JustConstructed
    /\ gemini_api_key /\ openai_api_key
    /\ attempts.gemini = "failed" /\ attempts.openai = "ok"
    /\ phase = "ready"

\* C18: an invoke whose first backend call succeeds leaves the invoker's state
\* unchanged: the active provider and the adapter in use are the same after it
\* as before it, and no adapter is constructed.
DirectSuccessKeepsState ==
    [][(invokes' = invokes + 1 /\ result'.first = "ok") =>
           /\ current_provider' = current_provider
           /\ llm' = llm
           /\ constructed' = constructed
           /\ result'.ctor = "none"
           /\ result'.calls = <<llm>>]_vars

\* C18 witness: a first call succeeded on the secondary while the primary
\* credential is present.
DirectSuccessWitness ==
    /\ invokes >= 1
    /\ result.kind = "ok" /\ result.first = "ok"
    /\ current_provider = "openai" /\ gemini_api_key

\* C19: on fallback the retry is issued exactly once, against the alternate
\* provider and never against the provider whose call just failed, with the
\* messages and options that were passed to the failed call.
RetryOnceOnAlternate ==
    /\ Len(result.calls) <= 2
    /\ Len(result.sent) = Len(result.calls)
    /\ result.ctor = "ok" =>
           /\ Len(result.calls) = 2
           /\ result.calls[1] = result.start
           /\ result.calls[2] = Alternate(result.start)
           /\ result.calls[2] # result.calls[1]
           /\ result.sent[1] = result.args
           /\ result.sent[2] = result.sent[1]

\* C19 witness: a retry was made for a request that carries options and more
\* than one message.
RetryOnceWitness ==
    /\ result.ctor = "ok"
    /\ result.args.kwargs # {}
    /\ Len(result.args.messages) = 2
    /\ result.second = "ok"

\* C20: every failure invoke surfaces identifies the provider that failed:
\* after a double failure the error names the provider that was active when
\* the invoke started, the one whose call failed first.
ErrorNamesStartingProvider ==
    result.kind \in {"AllProvidersExhausted", "NoFallbackAvailable"} =>
        result.named = result.start

\* ------------------------------------------------------------------------
\* Properties of the normalizer: shapes
\* ------------------------------------------------------------------------

\* Word w occurs in text t.
Occurs(t, w) ==
    \E i \in 1..(Len(t) - Len(w) + 1) : SubSeq(t, i, i + Len(w) - 1) = w

\* The text contains one of the four JSON markers.
HasJsonMarker(t) ==
    \E m \in {MarkerName, MarkerSignature, MarkerSummary, MarkerTotalTests} :
        Occurs(t, m)

\* The text contains 'package ' together with 'public class' or
\* 'public interface'.
HasJavaMarkers(t) ==
    Occurs(t, PackageKw) /\ (Occurs(t, PublicClass) \/ Occurs(t, PublicInterface))

\* C21: a text with a JSON marker is processed by the JSON strategy only, also
\* when it holds 'package ' with 'public class' or 'public interface'; the
\* source-code strategy applies only when no JSON marker is present, and the
\* OTHER strategy only when neither shape matches.
ShapeOrder ==
    Len(cleaned) >= 1 =>
        LET t == Trimmed(response_text) IN
        /\ HasJsonMarker(t) => cleaned[1] = Trimmed(CleanJson(t))
        /\ (~HasJsonMarker(t) /\ HasJavaMarkers(t)) =>
               cleaned[1] = Trimmed(CleanJava(t))
        /\ (~HasJsonMarker(t) /\ ~HasJavaMarkers(t)) =>
               cleaned[1] = Trimmed(CleanOther(t))

\* C21 witness: a normalized text with a JSON marker and the Java keywords, on
\* which the JSON and the source-code strategy differ.
ShapeOrderWitness ==
    /\ Len(cleaned) >= 1
    /\ HasJsonMarker(response_text)
    /\ HasJavaMarkers(response_text)
    /\ Trimmed(CleanJson(Trimmed(response_text)))
           # Trimmed(CleanJava(Trimmed(response_text)))

\* Text t starts with word w.
HasPrefix(t, w) == Len(t) >= Len(w) /\ SubSeq(t, 1, Len(w)) = w

\* Text t ends with word w.
HasSuffix(t, w) == Len(t) >= Len(w) /\ SubSeq(t, Len(t) - Len(w) + 1, Len(t)) = w

\* The fence opener a text starts with, the three flavours tested in order;
\* empty when it starts with none.
OpenerOf(t) ==
    IF HasPrefix(t, FenceJava) THEN FenceJava
    ELSE IF HasPrefix(t, FenceJson) THEN FenceJson
    ELSE IF HasPrefix(t, Fence) THEN Fence
    ELSE <<>>

\* The text after its opener.
AfterOpener(t) == SubSeq(t, Len(OpenerOf(t)) + 1, Len(t))

\* A text with no shape marker.
NoShapeMarker(t) == ~HasJsonMarker(t) /\ ~HasJavaMarkers(t)

\* C22: for a text with no shape marker, normalization removes at most one
\* leading fence opener and at most one trailing fence marker and changes
\* nothing else apart from the final trim; with an opener and no closing fence
\* the text after the opener is returned, trimmed.
OtherShape ==
    (Len(cleaned) >= 1 /\ NoShapeMarker(Trimmed(response_text))) =>
        LET body == AfterOpener(Trimmed(response_text)) IN
        /\ HasSuffix(body, Fence) =>
               cleaned[1] = Trimmed(SubSeq(body, 1, Len(body) - Len(Fence)))
        /\ ~HasSuffix(body, Fence) => cleaned[1] = Trimmed(body)

\* C22 witness: a text opened by a json fence and not closed was normalized.
OtherShapeWitness ==
    /\ Len(cleaned) >= 1
    /\ NoShapeMarker(Trimmed(response_text))
    /\ OpenerOf(Trimmed(response_text)) = FenceJson
    /\ ~HasSuffix(AfterOpener(Trimmed(response_text)), Fence)
    /\ cleaned[1] # <<>>

\* The first position at which word w occurs in t (w occurs in t).
FirstAt(t, w) ==
    CHOOSE i \in 1..Len(t) :
        /\ SubSeq(t, i, i + Len(w) - 1) = w
        /\ \A j \in 1..(i - 1) : SubSeq(t, j, j + Len(w) - 1) # w

\* The text after the first occurrence of word w.
After(t, w) == SubSeq(t, FirstAt(t, w) + Len(w), Len(t))

\* The text without its leading whitespace.
LeftTrimmed(t) ==
    IF Trimmed(t) = <<>> THEN <<>>
    ELSE SubSeq(t, CHOOSE i \in 1..Len(t) :
                       /\ t[i] \notin Whitespace
                       /\ \A j \in 1..(i - 1) : t[j] \in Whitespace,
                Len(t))

\* The slice the start-of-code rule gives: after the first '```java' opener
\* when there is one; otherwise after a fence that is immediately followed by
\* a package declaration; otherwise from the first 'package '.
RuleSlice(t) ==
    IF Occurs(t, FenceJava) THEN After(t, FenceJava)
    ELSE IF Occurs(t, Fence) /\ HasPrefix(LeftTrimmed(After(t, Fence)), PackageKw)
    THEN After(t, Fence)
    ELSE IF Occurs(t, PackageKw)
    THEN SubSeq(t, FirstAt(t, PackageKw), Len(t))
    ELSE t

\* C23 (as claimed): for every source-code-shaped text the start-of-code rule,
\* followed by the remaining steps of the source-code strategy, gives the
\* result of the implementation.
SourceStartRule ==
    (Len(cleaned) >= 1
       /\ ~HasJsonMarker(Trimmed(response_text))
       /\ HasJavaMarkers(Trimmed(response_text))) =>
        cleaned[1] =
            Trimmed(CutAfterLastBrace(DropTrailingFence(SeekPackage(
                DropLeadingFence(RuleSlice(Trimmed(response_text)))))))

\* ------------------------------------------------------------------------
\* main and its five stages
\* ------------------------------------------------------------------------

\* The stage wrappers in the order main calls them.
StageNames == <<"analysis", "strategy", "generation", "execution", "report">>

\* main is inside the wrapper of one of its stages.
InStage == stage \in 1..Len(StageNames) /\ exit_code = -1

\* The manager of the process before an AutonomousLLMManager is constructed.
NoManager == [current_provider |-> NoProvider, llm |-> NoProvider, phase |-> "new"]

\* Mutant of StageManager: the stages share one AutonomousLLMManager.
StageManagerShared(held) == held

\* The manager a stage wrapper starts from: each wrapper constructs its own
\* stage object, whose __init__ constructs a new AutonomousLLMManager; held is
\* the manager of the stage before.
StageManager(held) == NoManager

\* Mutant of MainAfter: main goes on to the next stage after an empty result.
MainAfterIgnoringEmpty(k, nonempty) ==
    IF k = Len(StageNames) THEN [stage |-> k + 1, exit_code |-> 0]
    ELSE [stage |-> k + 1, exit_code |-> -1]

\* main after stage k returned: "if not <result>: return 1", else the next
\* stage, and "return 0" after the last.
MainAfter(k, nonempty) ==
    IF ~nonempty THEN [stage |-> k, exit_code |-> 1]
    ELSE IF k = Len(StageNames) THEN [stage |-> k + 1, exit_code |-> 0]
    ELSE [stage |-> k + 1, exit_code |-> -1]

MainInit ==
    /\ gemini_api_key \in BOOLEAN
    /\ openai_api_key \in BOOLEAN
    /\ current_provider = NoProvider
    /\ llm = NoProvider
    /\ phase = "new"
    /\ attempts = [gemini |-> "none", openai |-> "none"]
    /\ constructed = {}
    /\ invokes = 0
    /\ failed = FALSE
    /\ result = NoResult
    /\ response_text = <<>>
    /\ cleaned = <<>>
    /\ messages = <<>>
    /\ prompt = <<>>
    /\ MainIdle

\* main: create_autonomous_config() and "if not config: return 1".  validate()
\* rejects a configuration without any API key.
CreateConfig ==
    /\ stage = 0
    /\ exit_code = -1
    /\ \E valid \in BOOLEAN :
         IF valid /\ (gemini_api_key \/ openai_api_key)
         THEN stage' = 1 /\ exit_code' = -1
         ELSE stage' = 0 /\ exit_code' = 1
    /\ UNCHANGED <<managerVars, helperVars, completed, last_provider, threads>>

\* A stage wrapper constructs its stage object and with it the manager.
StageConstruct == InStage /\ Construct

\* The stage object calls self.llm_manager.invoke.  What main sees of a stage
\* is whether its result is empty, so of the backend replies only the failure
\* and the reply with an empty text are followed here.
StageInvoke == InStage /\ Invoke /\ result'.raw = <<>>

\* A stage wrapper returns (an empty result when anything raised inside it, as
\* a failed construction does) and main tests what it returned.
StageReturn ==
    /\ InStage
    /\ phase # "new"
    /\ \E nonempty \in BOOLEAN :
         /\ phase = "ctor_failed" => ~nonempty
         /\ completed' = Append(completed,
                                [name |-> StageNames[stage],
                                 result |-> IF nonempty THEN "nonempty"
                                            ELSE "empty"])
         /\ stage' = MainAfter(stage, nonempty).stage
         /\ exit_code' = MainAfter(stage, nonempty).exit_code
    /\ last_provider' = current_provider
    /\ LET next == StageManager([current_provider |-> current_provider,
                                 llm |-> llm, phase |-> phase]) IN
         /\ current_provider' = next.current_provider
         /\ llm' = next.llm
         /\ phase' = next.phase
    /\ attempts' = [gemini |-> "none", openai |-> "none"]
    /\ constructed' = {}
    /\ invokes' = 0
    /\ failed' = FALSE
    /\ result' = NoResult
    /\ UNCHANGED <<gemini_api_key, openai_api_key, helperVars, threads>>

MainNext == CreateConfig \/ StageConstruct \/ StageInvoke \/ StageReturn

SpecMain == MainInit /\ [][MainNext]_vars

\* ------------------------------------------------------------------------
\* Properties of main
\* ------------------------------------------------------------------------

\* Every stage that has returned so far returned a non-empty result.
AllNonEmpty == \A i \in 1..Len(completed) : completed[i].result = "nonempty"

\* C24: the five stages run in the fixed order analysis, strategy, generation,
\* execution, report; a stage is started only if the configuration and every
\* earlier stage gave a non-empty result; once a stage returns an empty result
\* no later stage runs and main returns 1; main returns 0 only when all five
\* stages returned non-empty results.
PipelineOrder ==
    /\ Len(completed) <= 5
    /\ \A i \in 1..Len(completed) :
         /\ completed[i].name =
                <<"analysis", "strategy", "generation", "execution", "report">>[i]
         /\ completed[i].result = "empty" => i = Len(completed) /\ exit_code = 1
    /\ (phase # "new" \/ invokes > 0) =>
           /\ stage >= 1
           /\ exit_code = -1
           /\ AllNonEmpty
           /\ Len(completed) = stage - 1
    /\ exit_code = 0 <=> (Len(completed) = 5 /\ AllNonEmpty)
    /\ exit_code = 1 =>
           \/ completed = <<>> /\ stage = 0
           \/ completed # <<>> /\ completed[Len(completed)].result = "empty"

\* C24 witness: the third stage returned an empty result and main returned 1.
PipelineOrderWitness ==
    /\ Len(completed) = 3
    /\ completed[3].result = "empty"
    /\ exit_code = 1

\* C30: provider state is per stage: each stage constructs its own invoker, so
\* a stage's first backend call goes to the provider the construction rule
\* chooses (the primary when its credential is present and it constructs),
\* also when the stage before ended on the secondary.
StageOwnInvoker ==
    (InStage /\ invokes = 1) =>
        /\ attempts.gemini = "ok" \/ attempts.openai = "ok"
        /\ result.calls[1] = IF gemini_api_key /\ attempts.gemini = "ok"
                             THEN "gemini" ELSE "openai"

\* C30 witness: the stage before ended on the secondary and the first backend
\* call of this stage went to the primary.
StageOwnInvokerWitness ==
    /\ InStage
    /\ stage >= 2
    /\ last_provider = "openai"
    /\ invokes = 1
    /\ result.calls[1] = "gemini"

\* ------------------------------------------------------------------------
\* invoke called from several threads on one manager
\* ------------------------------------------------------------------------

\* A thread about to call invoke.  pc is its position in invoke; first is the
\* adapter its first call went to, seen the value of self.current_provider on
\* which it chose its branch, target the provider it falls back to, retry the
\* adapter its second call went to, wrote whether it has assigned self.llm or
\* self.current_provider, kind what invoke gave its caller.
ThreadStart ==
    [pc |-> "start", first |-> NoProvider, seen |-> NoProvider,
     target |-> NoProvider, retry |-> NoProvider, wrote |-> FALSE,
     kind |-> "none"]

\* Mutant of TriedAdapter: _try_<target>() leaves self.llm as it was.
TriedAdapterKept(held, target) == held

\* self.llm after _try_<target>() succeeded, held being what it was before.
TriedAdapter(held, target) == target

\* A constructed manager, and NumThreads threads about to call invoke on it.
ConcurrentInit ==
    /\ gemini_api_key \in BOOLEAN
    /\ openai_api_key \in BOOLEAN
    /\ \E gOk \in BOOLEAN, oOk \in BOOLEAN :
         LET p == InitializeLLM(gemini_api_key, openai_api_key, gOk, oOk) IN
         /\ p # NoProvider
         /\ current_provider = p
         /\ llm = p
         /\ attempts = InitAttempts(gemini_api_key, openai_api_key, gOk, oOk)
         /\ constructed = {p}
    /\ phase = "ready"
    /\ invokes = 0
    /\ failed = FALSE
    /\ result = NoResult
    /\ response_text = <<>>
    /\ cleaned = <<>>
    /\ messages = <<>>
    /\ prompt = <<>>
    /\ stage = 0
    /\ completed = <<>>
    /\ exit_code = -1
    /\ last_provider = NoProvider
    /\ threads = [t \in 1..NumThreads |-> ThreadStart]

\* Nothing but the shared manager fields and the threads changes.
OnlyThreads ==
    UNCHANGED <<gemini_api_key, openai_api_key, phase, attempts, invokes,
                failed, result, helperVars, mainVars>>

\* Line 107: the thread calls the adapter self.llm holds.
CallFirst ==
    \E t \in DOMAIN threads : \E ok \in BOOLEAN :
        /\ threads[t].pc = "start"
        /\ threads' = [threads EXCEPT
                         ![t].first = llm,
                         ![t].pc = IF ok THEN "done" ELSE "test_gemini",
                         ![t].kind = IF ok THEN "ok" ELSE "none"]
        /\ UNCHANGED <<current_provider, llm, constructed>>
        /\ OnlyThreads

\* Line 118: if self.current_provider == "gemini" and self.openai_api_key
TestGemini ==
    \E t \in DOMAIN threads :
        /\ threads[t].pc = "test_gemini"
        /\ threads' = IF current_provider = "gemini" /\ openai_api_key
                      THEN [threads EXCEPT ![t].pc = "try",
                                           ![t].seen = current_provider,
                                           ![t].target = "openai"]
                      ELSE [threads EXCEPT ![t].pc = "test_openai"]
        /\ UNCHANGED <<current_provider, llm, constructed>>
        /\ OnlyThreads

\* Line 137: elif self.current_provider == "openai" and self.gemini_api_key,
\* and the else at line 156.
TestOpenai ==
    \E t \in DOMAIN threads :
        /\ threads[t].pc = "test_openai"
        /\ threads' = IF current_provider = "openai" /\ gemini_api_key
                      THEN [threads EXCEPT ![t].pc = "try",
                                           ![t].seen = current_provider,
                                           ![t].target = "gemini"]
                      ELSE [threads EXCEPT ![t].pc = "done",
                                           ![t].seen = current_provider,
                                           ![t].kind = "NoFallbackAvailable"]
        /\ UNCHANGED <<current_provider, llm, constructed>>
        /\ OnlyThreads

\* Lines 121, 140: self._try_<target>() assigns self.llm, or raises.
TryFallback ==
    \E t \in DOMAIN threads : \E ctorOk \in BOOLEAN :
        /\ threads[t].pc = "try"
        /\ IF ctorOk
           THEN /\ llm' = TriedAdapter(llm, threads[t].target)
                /\ constructed' = constructed \cup {threads[t].target}
                /\ threads' = [threads EXCEPT ![t].pc = "switch",
                                              ![t].wrote = TRUE]
           ELSE /\ threads' = [threads EXCEPT
                                 ![t].pc = "done",
                                 ![t].kind = "AllProvidersExhausted"]
                /\ UNCHANGED <<llm, constructed>>
        /\ UNCHANGED current_provider
        /\ OnlyThreads

\* Lines 122, 141: self.current_provider = "<target>"
SwitchProvider ==
    \E t \in DOMAIN threads :
        /\ threads[t].pc = "switch"
        /\ current_provider' = SwitchedProvider(current_provider, threads[t].target)
        /\ threads' = [threads EXCEPT ![t].pc = "retry"]
        /\ UNCHANGED <<llm, constructed>>
        /\ OnlyThreads

\* Lines 124, 143: the thread calls the adapter self.llm holds now.
RetryCall ==
    \E t \in DOMAIN threads : \E ok \in BOOLEAN :
        /\ threads[t].pc = "retry"
        /\ threads' = [threads EXCEPT
                         ![t].retry = llm,
                         ![t].pc = "done",
                         ![t].kind = IF ok THEN "ok" ELSE "AllProvidersExhausted"]
        /\ UNCHANGED <<current_provider, llm, constructed>>
        /\ OnlyThreads

ConcurrentNext ==
    CallFirst \/ TestGemini \/ TestOpenai \/ TryFallback \/ SwitchProvider
        \/ RetryCall

SpecConcurrent == ConcurrentInit /\ [][ConcurrentNext]_vars

\* ------------------------------------------------------------------------
\* Properties of concurrent invokes
\* ------------------------------------------------------------------------

\* Thread t retried on the adapter of the provider whose call had just failed.
RetriedFailedProvider(t) ==
    threads[t].retry # NoProvider /\ threads[t].retry = threads[t].first

\* C25: the switch of the active provider is not safe under concurrent
\* invokes.  A thread retries the provider whose call just failed only when
\* another invoke has assigned the shared fields; the witness is the reachable
\* interleaving of the claim.
RetryOnFailedNeedsOtherInvoke ==
    \A t \in DOMAIN threads :
        RetriedFailedProvider(t) =>
            \E u \in DOMAIN threads \ {t} : threads[u].wrote

\* C25 witness: with both credentials present, a thread whose call failed on a
\* provider read the active provider as changed by the other invoke, fell back
\* to the provider that had just failed, retried it and left it active.
UnsafeSwitchWitness ==
    /\ gemini_api_key /\ openai_api_key
    /\ \E t \in DOMAIN threads :
         /\ threads[t].pc = "done"
         /\ threads[t].first \in Providers
         /\ threads[t].seen = Alternate(threads[t].first)
         /\ threads[t].target = threads[t].first
         /\ threads[t].retry = threads[t].first
         /\ current_provider = threads[t].first
         /\ llm = threads[t].first

\* ------------------------------------------------------------------------
\* Further properties of the fallback invoker
\* ------------------------------------------------------------------------

\* C26: if constructing the alternate provider's adapter fails during
\* fallback, no second backend call is issued, invoke fails, and the recorded
\* active provider and the adapter remain those that were active before the
\* call.
FailedConstructionKeepsState ==
    [][(invokes' = invokes + 1 /\ result'.ctor = "failed") =>
           /\ result'.calls = <<llm>>
           /\ result'.second = "none"
           /\ result'.kind \notin {"ok", "none"}
           /\ current_provider' = current_provider
           /\ llm' = llm
           /\ constructed' = constructed]_vars

\* C26 witness: on openai, the call failed and the gemini adapter could not be
\* constructed.
FailedConstructionWitness ==
    /\ result.ctor = "failed"
    /\ result.start = "openai"
    /\ gemini_api_key
    /\ current_provider = "openai"

\* C27: fallback is sticky: after a switch every later invoke sends its first
\* backend call to the provider then active; the invoker leaves the active
\* provider only as the fallback of a failed call to it, never on its own.
StickyFallback ==
    [][(invokes' = invokes + 1) =>
           /\ result'.calls[1] = current_provider
           /\ current_provider' # current_provider =>
                  /\ result'.first = "failed"
                  /\ result'.ctor = "ok"
                  /\ current_provider' = Alternate(current_provider)]_vars

\* C27 witness: constructed on gemini, switched to openai by an earlier invoke,
\* and a later invoke went to openai first and succeeded there.
StickyFallbackWitness ==
    /\ attempts.gemini = "ok"
    /\ invokes >= 2
    /\ result.calls = <<"openai">>
    /\ result.kind = "ok"
    /\ current_provider = "openai"

\* C28: after a successful construction and after every invoke, returning or
\* raising, the name get_current_provider reports matches the adapter held:
\* "gemini" exactly when the gemini wrapper is held, "openai" exactly when the
\* chat-completion client is, and never None.
ReportedMatchesHeld ==
    phase = "ready" =>
        /\ current_provider = "gemini" <=> llm = "gemini"
        /\ current_provider = "openai" <=> llm = "openai"
        /\ current_provider # NoProvider
        /\ llm # NoProvider

\* C28 witness: an invoke raised after it had switched to openai.
ReportedMatchesHeldWitness ==
    /\ phase = "ready"
    /\ result.kind = "AllProvidersExhausted"
    /\ result.ctor = "ok"
    /\ result.start = "gemini"
    /\ llm = "openai"

\* ------------------------------------------------------------------------
\* Further properties of the normalizer
\* ------------------------------------------------------------------------

\* C29 (as claimed): for every JSON-shaped input whose first "{" precedes its
\* last "}", the normalized result begins with "{" and ends with "}".
OuterBracesKept ==
    (Len(cleaned) >= 1
       /\ HasJsonMarker(response_text)
       /\ \E i \in PositionsOf(response_text, "{") :
            \E j \in PositionsOf(response_text, "}") : i < j) =>
        /\ cleaned[1] # <<>>
        /\ cleaned[1][1] = "{"
        /\ cleaned[1][Len(cleaned[1])] = "}"

====
